---------------------------- MODULE Spec2Model ----------------------------
(***************************************************************************)
(* Train-schedule optimizers of prototype-backend:                         *)
(*   optimization/demo_optimizer.py   TrainOptimizer  (CP-SAT + fallback)  *)
(*   optimization/simple_optimizer.py SimpleTrainOptimizer (greedy)        *)
(* An optimizer object owns a train list and a platform list; the scenario *)
(* entry point mutates them in place and re-solves.                        *)
(***************************************************************************)
EXTENDS Integers, Sequences, FiniteSets, TLC

VARIABLES
    optimizer,      \* class of the object: "TrainOptimizer" / "SimpleTrainOptimizer"
    trains,         \* self.trains
    platforms,      \* self.platforms
    solver_status,  \* status of the last solver.Solve(model), "NONE" before any
    result,         \* value returned by the last optimize call, NoResult before any
    audit,          \* last analyze_schedule_conflicts call, NoAudit when none
    scenario,       \* argument of the optimize_for_scenario call that returned result,
                    \* NoScenario for optimize_train_schedule and between calls
    mock_schedule_entries,  \* the module-level list of routes/schedule.py
    route_response  \* data of the last apply_scenario response, NoResponse before any

vars == <<optimizer, trains, platforms, solver_status, result, audit, scenario,
          mock_schedule_entries, route_response>>

\* the variables of the optimizer object and of its caller
optimizer_vars == <<optimizer, trains, platforms, solver_status, result, audit, scenario>>

-----------------------------------------------------------------------------
(* Bounds of the model *)

\* weather scenario applications explored per object
MaxWeather == 1

\* length of the schedules handed to the conflict auditor
MaxAuditLen == 3

\* largest estimated_delay of a schedule entry explored
MaxRouteDelay == 60

-----------------------------------------------------------------------------
(* Program constants *)

time_horizon == 480

time_start == 360

buffer_time == 5

simple_buffer == 5

simple_total_time == 480

fallback_buffer == 10

maintenance_platforms == 4

weather_min == 5

weather_max == 15

\* routes/schedule.py apply_scenario: random.randint ranges and the platform count
route_weather_min == 10

route_weather_max == 30

route_accident_min == 30

route_accident_max == 60

route_peak_min == 5

route_peak_max == 15

route_maintenance_min == 15

route_maintenance_max == 25

route_platforms == 4

-----------------------------------------------------------------------------
(* Generic helpers *)

Max(a, b) == IF a >= b THEN a ELSE b

Min(a, b) == IF a <= b THEN a ELSE b

Abs(a) == IF a >= 0 THEN a ELSE 0 - a

RECURSIVE SumSeq(_)
SumSeq(s) == IF s = <<>> THEN 0 ELSE Head(s) + SumSeq(Tail(s))

Indices(s) == 1..Len(s)

-----------------------------------------------------------------------------
(* "HH:MM" strings: f"{h:02d}:{m:02d}" and time_to_minutes.  A string is a  *)
(* sequence of one-character strings.                                      *)

DigitChars == <<"0", "1", "2", "3", "4", "5", "6", "7", "8", "9">>

RECURSIVE Decimal(_)
\* str(n) for n >= 0
Decimal(n) ==
    IF n < 10 THEN <<DigitChars[n + 1]>>
    ELSE Decimal(n \div 10) \o <<DigitChars[(n % 10) + 1]>>

\* f"{n:02d}" for n >= 0: zero-padded to at least two characters
Pad02(n) == IF n < 10 THEN <<"0">> \o Decimal(n) ELSE Decimal(n)

\* f"{minutes // 60:02d}:{minutes % 60:02d}"
FormatHHMM(minutes) == Pad02(minutes \div 60) \o <<":">> \o Pad02(minutes % 60)

CharValue(c) == CHOOSE d \in 0..9 : DigitChars[d + 1] = c

RECURSIVE ParseInt(_)
\* int(s) for a non-empty digit string
ParseInt(s) ==
    IF Len(s) = 1 THEN CharValue(s[1])
    ELSE ParseInt(SubSeq(s, 1, Len(s) - 1)) * 10 + CharValue(s[Len(s)])

\* hour, minute = map(int, time_str.split(":")); return hour * 60 + minute
time_to_minutes(time_str) ==
    LET colon == CHOOSE i \in Indices(time_str) : time_str[i] = ":"
    IN  ParseInt(SubSeq(time_str, 1, colon - 1)) * 60
          + ParseInt(SubSeq(time_str, colon + 1, Len(time_str)))

-----------------------------------------------------------------------------
(* Domain data: __init__ of both classes *)

InitTrains ==
    << [id |-> "T001", type |-> "Express",   priority |-> 1, duration |-> 10, preferred_time |-> 630],
       [id |-> "T002", type |-> "Express",   priority |-> 2, duration |-> 8,  preferred_time |-> 675],
       [id |-> "T003", type |-> "Freight",   priority |-> 3, duration |-> 15, preferred_time |-> 720],
       [id |-> "T004", type |-> "Passenger", priority |-> 4, duration |-> 12, preferred_time |-> 645] >>

InitPlatforms == <<1, 2, 3, 4, 5, 6>>

\* trains and platforms a caller has assigned to the object's attributes before the
\* first call (neither class checks them):
\*   three trains of one preferred time for two platforms, priorities unsorted and tied;
\*   a duration of 0 and one below 0, a priority above 5 and one below 1;
\*   preferred times before time_start;
\*   a train that one weather scenario makes longer than time_horizon
InputConfigs ==
    { [trains |->
         << [id |-> "T001", type |-> "Passenger", priority |-> 2, duration |-> 15, preferred_time |-> 630],
            [id |-> "T002", type |-> "Express",   priority |-> 1, duration |-> 15, preferred_time |-> 630],
            [id |-> "T003", type |-> "Freight",   priority |-> 1, duration |-> 15, preferred_time |-> 630] >>,
       platforms |-> <<1, 2>>],
      [trains |->
         << [id |-> "T001", type |-> "Express", priority |-> 7, duration |-> 0,  preferred_time |-> 640],
            [id |-> "T002", type |-> "Freight", priority |-> 0, duration |-> -5, preferred_time |-> 675] >>,
       platforms |-> <<1, 2>>],
      [trains |->
         << [id |-> "T001", type |-> "Express",   priority |-> 1, duration |-> 10, preferred_time |-> 300],
            [id |-> "T002", type |-> "Passenger", priority |-> 2, duration |-> 12, preferred_time |-> 330] >>,
       platforms |-> <<1, 2>>],
      [trains |->
         << [id |-> "T001", type |-> "Express",   priority |-> 1, duration |-> 476, preferred_time |-> 360],
            [id |-> "T002", type |-> "Passenger", priority |-> 2, duration |-> 8,   preferred_time |-> 675] >>,
       platforms |-> <<1, 2>>] }

NoResult == [status |-> "none"]

NoAudit == [called |-> FALSE]

NoScenario == "none"

RECURSIVE InsertByPriority_Dedup(_, _)
\* mutant: an element of equal key replaces the one already there
InsertByPriority_Dedup(sorted, t) ==
    IF sorted = <<>> THEN <<t>>
    ELSE IF Head(sorted).priority = t.priority
         THEN <<t>> \o Tail(sorted)
         ELSE IF Head(sorted).priority < t.priority
              THEN <<Head(sorted)>> \o InsertByPriority_Dedup(Tail(sorted), t)
              ELSE <<t>> \o sorted

RECURSIVE InsertByPriority(_, _)
\* position of t in a stable ascending sort: after every element whose key is <= its own
InsertByPriority(sorted, t) ==
    IF sorted = <<>> THEN <<t>>
    ELSE IF Head(sorted).priority <= t.priority
         THEN <<Head(sorted)>> \o InsertByPriority(Tail(sorted), t)
         ELSE <<t>> \o sorted

RECURSIVE SortedByPriority(_)
\* sorted(self.trains, key=lambda x: x["priority"])  (stable)
SortedByPriority(ts) ==
    IF ts = <<>> THEN <<>>
    ELSE InsertByPriority(SortedByPriority(SubSeq(ts, 1, Len(ts) - 1)), ts[Len(ts)])

\* one element of train_schedule
ScheduleEntry(train, start_minutes, platform, delay) ==
    [train_id        |-> train.id,
     train_type      |-> train.type,
     priority        |-> train.priority,
     scheduled_start |-> FormatHHMM(start_minutes),
     scheduled_end   |-> FormatHHMM(start_minutes + train.duration),
     platform        |-> platform,
     delay_minutes   |-> delay,
     duration        |-> train.duration]

\* platform_allocation: platform -> list of {train_id, start, end}, keys are the used platforms
PlatformAllocation(schedule) ==
    [p \in {schedule[i].platform : i \in Indices(schedule)} |->
        LET F[k \in 0..Len(schedule)] ==
                IF k = 0 THEN <<>>
                ELSE IF schedule[k].platform = p
                     THEN Append(F[k - 1], [train_id |-> schedule[k].train_id,
                                            start    |-> schedule[k].scheduled_start,
                                            end      |-> schedule[k].scheduled_end])
                     ELSE F[k - 1]
        IN  F[Len(schedule)]]

\* ties of used_time * 1000 / 480 at which the float product (used_time / 480) * 100
\* is not the exact x.x5, so that round(..., 1) goes to the odd neighbour (used_time
\* within -500..1200)
FloatNoiseTies == {-306, -294, -138, 138, 294, 306, 522, 558, 966, 1074, 1086, 1194}

\* round((used_time / total_time) * 100, 1) in tenths of a percent: round-half-even
\* on the exactly representable ties
RoundTenths(used_time, total_time) ==
    LET q == (used_time * 1000) \div total_time
        r == (used_time * 1000) % total_time
    IN  IF r * 2 > total_time THEN q + 1
        ELSE IF r * 2 < total_time THEN q
        ELSE IF used_time \in FloatNoiseTies
             THEN (IF q % 2 = 1 THEN q ELSE q + 1)
             ELSE (IF q % 2 = 1 THEN q + 1 ELSE q)

\* f"platform_{platform_id}"
PlatformKey(platform_id) == <<"platform_">> \o Decimal(platform_id)

\* duration of the first train of ts whose id is train_id
DurationOfId(ts, train_id) ==
    ts[CHOOSE i \in Indices(ts) :
            /\ ts[i].id = train_id
            /\ \A j \in 1..(i - 1) : ts[j].id # train_id].duration

\* TrainOptimizer.calculate_platform_utilization: one entry per key of
\* platform_allocation, in tenths of a percent
calculate_platform_utilization(ts, platform_allocation) ==
    [k \in {PlatformKey(p) : p \in DOMAIN platform_allocation} |->
        LET p         == CHOOSE q \in DOMAIN platform_allocation : PlatformKey(q) = k
            schedules == platform_allocation[p]
            used_time == SumSeq([n \in Indices(schedules) |->
                                    DurationOfId(ts, schedules[n].train_id)])
        IN  RoundTenths(used_time, time_horizon)]

\* SimpleTrainOptimizer.calculate_platform_utilization: the same over total_time =
\* 480, then 0.0 for every platform of self.platforms without an allocation
simple_calculate_platform_utilization(ts, pls, platform_allocation) ==
    [k \in {PlatformKey(p) : p \in DOMAIN platform_allocation}
              \cup {PlatformKey(pls[i]) : i \in Indices(pls)} |->
        IF k \in {PlatformKey(p) : p \in DOMAIN platform_allocation}
        THEN LET p         == CHOOSE q \in DOMAIN platform_allocation : PlatformKey(q) = k
                 schedules == platform_allocation[p]
                 used_time == SumSeq([n \in Indices(schedules) |->
                                         DurationOfId(ts, schedules[n].train_id)])
             IN  RoundTenths(used_time, simple_total_time)
        ELSE 0]

\* the delay counters of performance_metrics
\* mutant: every train is counted as on time
DelayMetrics_AllOnTime(schedule, total_delay, delayed) ==
    [total_delay_minutes |-> total_delay,
     on_time_trains      |-> Len(schedule),
     delayed_trains      |-> delayed]

DelayMetrics(schedule, total_delay, delayed) ==
    [total_delay_minutes |-> total_delay,
     on_time_trains      |-> Cardinality({i \in Indices(schedule) : schedule[i].delay_minutes = 0}),
     delayed_trains      |-> delayed]

-----------------------------------------------------------------------------
(* SimpleTrainOptimizer.optimize_train_schedule *)

\* mutant: the last key of least value
BestPlatform_LastOfLeast(pls, usage) ==
    pls[CHOOSE i \in Indices(pls) :
            /\ \A j \in Indices(pls) : usage[pls[i]] <= usage[pls[j]]
            /\ \A j \in (i + 1)..Len(pls) : usage[pls[j]] > usage[pls[i]]]

\* min(platform_usage.keys(), key=...): the first key, in insertion order, of least value
BestPlatform(pls, usage) ==
    pls[CHOOSE i \in Indices(pls) :
            /\ \A j \in Indices(pls) : usage[pls[i]] <= usage[pls[j]]
            /\ \A j \in 1..(i - 1) : usage[pls[j]] > usage[pls[i]]]

\* start time of a train on the chosen platform
SimpleStart(train, free_at) == Max(Max(time_start, train.preferred_time), free_at)

\* delay = max(0, start_time - train["preferred_time"])
SimpleDelay(train, start_time) == Max(0, start_time - train.preferred_time)

\* platform_usage[best_platform] = start_time + duration + 5
SimpleRelease(train, start_time) == start_time + train.duration + simple_buffer

RECURSIVE GreedyPass(_, _, _, _)
\* the loop over sorted_trains; returns the schedule list
GreedyPass(sorted, pls, usage, schedule) ==
    IF sorted = <<>> THEN schedule
    ELSE LET train         == Head(sorted)
             best_platform == BestPlatform(pls, usage)
             start_time    == SimpleStart(train, usage[best_platform])
             delay         == SimpleDelay(train, start_time)
         IN  GreedyPass(Tail(sorted), pls,
                        [usage EXCEPT ![best_platform] = SimpleRelease(train, start_time)],
                        Append(schedule, ScheduleEntry(train, start_time, best_platform, delay)))

SimpleSchedule(ts, pls) ==
    GreedyPass(SortedByPriority(ts), pls,
               [p \in {pls[i] : i \in Indices(pls)} |-> time_start], <<>>)

\* mutant: the average is taken over the delayed trains, a division that raises
\* when no train is delayed
SimpleResult_DivByDelayed(ts, pls) ==
    LET schedule == IF pls = <<>> THEN <<>> ELSE SimpleSchedule(ts, pls)
    IN  IF \A i \in Indices(schedule) : schedule[i].delay_minutes = 0
        THEN [status |-> "error", error_message |-> "Simple optimization failed",
              train_schedule |-> <<>>, performance_metrics |-> <<>>]
        ELSE [status              |-> "optimal",
              objective_value     |-> SumSeq([i \in Indices(schedule) |-> schedule[i].delay_minutes]),
              train_schedule      |-> schedule,
              platform_allocation |-> PlatformAllocation(schedule),
              performance_metrics |-> <<>>]

\* the value returned by SimpleTrainOptimizer.optimize_train_schedule; min() of an
\* empty platform dict and the division by len(self.trains) raise, which the
\* except clause turns into the error result
SimpleResult(ts, pls) ==
    IF pls = <<>> \/ ts = <<>>
    THEN [status |-> "error", error_message |-> "Simple optimization failed",
          train_schedule |-> <<>>, performance_metrics |-> <<>>]
    ELSE LET schedule    == SimpleSchedule(ts, pls)
             total_delay == SumSeq([i \in Indices(schedule) |-> schedule[i].delay_minutes])
             on_time     == Cardinality({i \in Indices(schedule) : schedule[i].delay_minutes = 0})
         IN  [status              |-> "optimal",
              objective_value     |-> total_delay,
              train_schedule      |-> schedule,
              platform_allocation |-> PlatformAllocation(schedule),
              performance_metrics |->
                  DelayMetrics(schedule, total_delay, Len(schedule) - on_time)
                    @@ [platform_utilization |->
                            simple_calculate_platform_utilization(
                                ts, pls, PlatformAllocation(schedule))]]

-----------------------------------------------------------------------------
(* TrainOptimizer.get_fallback_solution *)

\* mutant: the difference is not floored at 0
FallbackDelay_Signed(train, current_time) == current_time - train.preferred_time

\* delay = max(0, current_time - preferred_minutes)
FallbackDelay(train, current_time) == Max(0, current_time - train.preferred_time)

\* mutant: the platform number is left 0-based
FallbackPlatform_ZeroBased(i, pls) == i % Len(pls)

\* platform = (i % len(self.platforms)) + 1, i counted from 0
FallbackPlatform(i, pls) == (i % Len(pls)) + 1

RECURSIVE FallbackPass(_, _, _, _, _)
FallbackPass(sorted, i, pls, current_time, schedule) ==
    IF sorted = <<>> THEN schedule
    ELSE LET train == Head(sorted)
         IN  FallbackPass(Tail(sorted), i + 1, pls,
                          current_time + train.duration + fallback_buffer,
                          Append(schedule,
                                 ScheduleEntry(train, current_time, FallbackPlatform(i, pls),
                                               FallbackDelay(train, current_time))))

\* mutant: the trains are taken in input order
FallbackSchedule_InputOrder(ts, pls) == FallbackPass(ts, 0, pls, time_start, <<>>)

\* sorted_trains = sorted(self.trains, key=priority); current_time = self.time_start
FallbackSchedule(ts, pls) == FallbackPass(SortedByPriority(ts), 0, pls, time_start, <<>>)

\* mutant: the recovery reports an error status
get_fallback_solution_ErrorStatus(ts, pls, error_message) ==
    [status              |-> "error",
     error_message       |-> error_message,
     train_schedule      |-> FallbackSchedule(ts, pls),
     performance_metrics |-> <<>>]

\* TrainOptimizer.get_fallback_solution
get_fallback_solution(ts, pls, error_message) ==
    LET schedule == FallbackSchedule(ts, pls)
    IN  [status              |-> "fallback",
         error_message       |-> error_message,
         train_schedule      |-> schedule,
         performance_metrics |->
             DelayMetrics(schedule,
                          SumSeq([i \in Indices(schedule) |-> schedule[i].delay_minutes]),
                          Cardinality({i \in Indices(schedule) : schedule[i].delay_minutes > 0}))]

-----------------------------------------------------------------------------
(* TrainOptimizer.optimize_train_schedule: the CP-SAT model.                *)
(* A solver assignment gives each train (by position in self.trains) a     *)
(* record [start, platform, delay].  The solver is a library: the model    *)
(* lets it return any assignment that satisfies the variable domains and   *)
(* the constraints the code adds, with values drawn from the sample sets   *)
(* below.                                                                  *)

\* preferred_relative = max(0, train["preferred_time"] - self.time_start)
preferred_relative(train) == Max(0, train.preferred_time - time_start)

\* mutant: the duration is left out of the upper bound
StartDomain_FullHorizon(train) == 0..time_horizon

\* NewIntVar(0, self.time_horizon - train["duration"], ...)
StartDomain(train) == 0..(time_horizon - train.duration)

\* mutant: the range is that of the platform list the object was built with
PlatformDomain_Initial(pls) == 1..Len(InitPlatforms)

\* NewIntVar(1, len(self.platforms), ...)
PlatformDomain(pls) == 1..Len(pls)

\* NewIntVar(0, self.time_horizon, ...)
DelayDomain == 0..time_horizon

\* model.Add(delay >= start - preferred_relative); model.Add(delay >= preferred_relative - start)
DelayConstraint(train, a) ==
    /\ a.delay >= a.start - preferred_relative(train)
    /\ a.delay >= preferred_relative(train) - a.start

\* mutant: the buffer is left out of the two end times
PlatformConflictConstraint_NoBuffer(train1, a1, train2, a2) ==
    \/ a1.start + train1.duration <= a2.start
    \/ a2.start + train2.duration <= a1.start
    \/ a1.platform # a2.platform

\* mutant: only equal start times are excluded on a shared platform
PlatformConflictConstraint_StartsOnly(train1, a1, train2, a2) ==
    \/ a1.start # a2.start
    \/ a1.platform # a2.platform

\* same_platform <=> equal platforms; AddBoolOr([no_overlap1, no_overlap2, same_platform.Not()])
PlatformConflictConstraint(train1, a1, train2, a2) ==
    \/ a1.start + train1.duration + buffer_time <= a2.start
    \/ a2.start + train2.duration + buffer_time <= a1.start
    \/ a1.platform # a2.platform

\* mutant: the weight is added on the right-hand side only
PriorityConstraint_Loose(train1, a1, train2, a2) ==
    train1.priority < train2.priority =>
        LET priority_weight == (train2.priority - train1.priority) * 10
        IN  a1.delay <= a2.delay + priority_weight * 2

\* for train1.priority < train2.priority:
\*   delays[t1] + priority_weight <= delays[t2] + priority_weight * 2
PriorityConstraint(train1, a1, train2, a2) ==
    train1.priority < train2.priority =>
        LET priority_weight == (train2.priority - train1.priority) * 10
        IN  a1.delay + priority_weight <= a2.delay + priority_weight * 2

\* mutant: the weight falls by one per priority level
get_priority_weight_Linear(priority) == IF priority \in 1..5 THEN 6 - priority ELSE 1

\* get_priority_weight: {1: 10, 2: 7, 3: 4, 4: 2, 5: 1}.get(priority, 1)
get_priority_weight(priority) ==
    CASE priority = 1 -> 10
      [] priority = 2 -> 7
      [] priority = 3 -> 4
      [] priority = 4 -> 2
      [] OTHER        -> 1

\* sum(delays[t] * weight)
ObjectiveValue(ts, sol) ==
    SumSeq([i \in Indices(ts) |-> sol[i].delay * get_priority_weight(ts[i].priority)])

\* sampled solver values: start offsets around the preferred time (one beyond any
\* horizon), the two ends of the platform range and one value beyond each end,
\* delays at and around the deviation from the preferred time
SolverStartOffsets == {-500, -20, 0, 20, 500}

SolverPlatformSamples(pls) == {0, 1, Len(pls), Len(pls) + 1}

SolverDelaySamples(train, start) ==
    LET deviation == Abs(start - preferred_relative(train))
    IN  {-1, 0, 10, deviation, time_horizon + 1}

\* the values one train's three variables may take: the variable domains
VarValues(train, pls) ==
    { [start |-> s, platform |-> p, delay |-> d] :
        s \in {preferred_relative(train) + o : o \in SolverStartOffsets} \cap StartDomain(train),
        p \in SolverPlatformSamples(pls) \cap PlatformDomain(pls),
        d \in UNION { SolverDelaySamples(train, preferred_relative(train) + o) :
                        o \in SolverStartOffsets } \cap DelayDomain }

\* one train's values that satisfy its own constraints
TrainValues(train, pls) ==
    { a \in VarValues(train, pls) :
        /\ a.delay \in SolverDelaySamples(train, a.start)
        /\ DelayConstraint(train, a) }

\* the pairwise constraints between train k and the trains before it
PairwiseOk(ts, partial, k, a) ==
    \A i \in Indices(partial) :
        /\ PlatformConflictConstraint(ts[i], partial[i], ts[k], a)
        /\ PriorityConstraint(ts[i], partial[i], ts[k], a)
        /\ PriorityConstraint(ts[k], a, ts[i], partial[i])

RECURSIVE Assignments(_, _, _)
\* assignments of the first k trains satisfying every constraint among them
Assignments(ts, pls, k) ==
    IF k = 0 THEN {<<>>}
    ELSE UNION { { Append(partial, a) : a \in { b \in TrainValues(ts[k], pls) :
                                                    PairwiseOk(ts, partial, k, b) } } :
                 partial \in Assignments(ts, pls, k - 1) }

FeasibleSolutions(ts, pls) == Assignments(ts, pls, Len(ts))

\* least objective value over a non-empty set of solutions
MinObjective(ts, sols) ==
    LET values == {ObjectiveValue(ts, sol) : sol \in sols}
    IN  CHOOSE v \in values : \A w \in values : v <= w

\* mutant: the start is not converted back to minutes from midnight
extract_solution_Relative(ts, sol) ==
    LET schedule == [i \in Indices(ts) |->
                        ScheduleEntry(ts[i], sol[i].start, sol[i].platform, sol[i].delay)]
        total_delay == SumSeq([i \in Indices(ts) |-> sol[i].delay])
    IN  [status              |-> "optimal",
         objective_value     |-> ObjectiveValue(ts, sol),
         train_schedule      |-> schedule,
         platform_allocation |-> PlatformAllocation(schedule),
         performance_metrics |->
             DelayMetrics(schedule, total_delay,
                          Cardinality({i \in Indices(schedule) : schedule[i].delay_minutes > 0}))]

\* TrainOptimizer.extract_solution
extract_solution(ts, sol) ==
    LET schedule == [i \in Indices(ts) |->
                        ScheduleEntry(ts[i], time_start + sol[i].start,
                                      sol[i].platform, sol[i].delay)]
        total_delay == SumSeq([i \in Indices(ts) |-> sol[i].delay])
    IN  [status              |-> "optimal",
         objective_value     |-> ObjectiveValue(ts, sol),
         train_schedule      |-> schedule,
         platform_allocation |-> PlatformAllocation(schedule),
         performance_metrics |->
             DelayMetrics(schedule, total_delay,
                          Cardinality({i \in Indices(schedule) : schedule[i].delay_minutes > 0}))
               @@ [platform_utilization |->
                       calculate_platform_utilization(ts, PlatformAllocation(schedule))]]

-----------------------------------------------------------------------------
(* optimize_for_scenario: the in-place mutations *)

\* random.randint(5, 15), sampled at its two ends
WeatherDeltas == {weather_min, weather_max}

\* one draw per train: every train the same value, or differing values
WeatherDraws(ts) ==
    { [i \in Indices(ts) |-> d] : d \in WeatherDeltas }
      \cup { [i \in Indices(ts) |-> IF i % 2 = 1 THEN weather_min ELSE weather_max] }

\* mutant: the drawn amount is added twice
ApplyWeather_Twice(ts, draw) ==
    [i \in Indices(ts) |-> [ts[i] EXCEPT !.duration = @ + draw[i] + draw[i]]]

\* for train in self.trains: train["duration"] += random.randint(5, 15)
ApplyWeather(ts, draw) ==
    [i \in Indices(ts) |-> [ts[i] EXCEPT !.duration = @ + draw[i]]]

\* mutant: two platforms are closed on every application
ApplyMaintenance_TwoFewer(pls) == SubSeq(pls, 1, Max(1, Len(pls) - 2))

\* self.platforms = self.platforms[:4]
ApplyMaintenance(pls) == SubSeq(pls, 1, Min(maintenance_platforms, Len(pls)))

\* mutant: the train type is not tested
ApplyPeakHours_AllTrains(ts) ==
    [i \in Indices(ts) |-> [ts[i] EXCEPT !.priority = Max(1, @ - 1)]]

\* Passenger trains: train["priority"] = max(1, train["priority"] - 1)
ApplyPeakHours(ts) ==
    [i \in Indices(ts) |->
        IF ts[i].type = "Passenger"
        THEN [ts[i] EXCEPT !.priority = Max(1, @ - 1)]
        ELSE ts[i]]

\* scenario names that none of the three branches tests for (ScenarioType.ACCIDENT)
UnrecognizedScenarios == {"accident"}

\* mutant: the maintenance branch is the else branch of the chain
ScenarioInputs_ElseMaintenance(name, ts, pls, draw) ==
    IF name = "weather"
    THEN [trains |-> ApplyWeather(ts, draw), platforms |-> pls]
    ELSE IF name = "peak_hours"
    THEN [trains |-> ApplyPeakHours(ts), platforms |-> pls]
    ELSE [trains |-> ts, platforms |-> ApplyMaintenance(pls)]

\* the if / elif chain of optimize_for_scenario: the trains and platforms the object
\* holds when the chain is left; draw holds the random.randint values of the weather
\* branch
ScenarioInputs(name, ts, pls, draw) ==
    IF name = "weather"
    THEN [trains |-> ApplyWeather(ts, draw), platforms |-> pls]
    ELSE IF name = "maintenance"
    THEN [trains |-> ts, platforms |-> ApplyMaintenance(pls)]
    ELSE IF name = "peak_hours"
    THEN [trains |-> ApplyPeakHours(ts), platforms |-> pls]
    ELSE [trains |-> ts, platforms |-> pls]

\* the train lists an object starts from
WeatherBases == {InitTrains} \cup {c.trains : c \in InputConfigs}

\* the number of weather applications is not program state: the bound is on the
\* increase each duration has accumulated over the train list the object started from
WeatherAllowed(ts, draw) ==
    \E base \in WeatherBases :
        /\ Len(base) = Len(ts)
        /\ \A i \in Indices(ts) :
              /\ base[i].id = ts[i].id
              /\ base[i].preferred_time = ts[i].preferred_time
              /\ base[i].duration <= ts[i].duration
              /\ ts[i].duration + draw[i] <= base[i].duration + weather_max * MaxWeather

-----------------------------------------------------------------------------
(* TrainOptimizer.analyze_schedule_conflicts *)

\* mutant: strict comparisons, so that touching intervals count as overlapping
TimesOverlap_Strict(t1_start, t1_end, t2_start, t2_end) ==
    ~(t1_end < t2_start \/ t2_end < t1_start)

\* if not (t1_end <= t2_start or t2_end <= t1_start)
TimesOverlap(t1_start, t1_end, t2_start, t2_end) ==
    ~(t1_end <= t2_start \/ t2_end <= t1_start)

\* mutant: the overlap is measured from the earlier start to the later end
ConflictsOfPair_Span(schedule, i, j) ==
    LET train1   == schedule[i]
        train2   == schedule[j]
        t1_start == time_to_minutes(train1.scheduled_start)
        t1_end   == t1_start + train1.duration
        t2_start == time_to_minutes(train2.scheduled_start)
        t2_end   == t2_start + train2.duration
    IN  IF train1.platform = train2.platform /\ TimesOverlap(t1_start, t1_end, t2_start, t2_end)
        THEN << [type            |-> "Platform Conflict",
                 trains          |-> <<train1.train_id, train2.train_id>>,
                 platform        |-> train1.platform,
                 overlap_minutes |-> Max(t1_end, t2_end) - Min(t1_start, t2_start)] >>
        ELSE <<>>

\* the conflict entry of schedule positions i < j, if the code appends one
ConflictsOfPair(schedule, i, j) ==
    LET train1   == schedule[i]
        train2   == schedule[j]
        t1_start == time_to_minutes(train1.scheduled_start)
        t1_end   == t1_start + train1.duration
        t2_start == time_to_minutes(train2.scheduled_start)
        t2_end   == t2_start + train2.duration
    IN  IF train1.platform = train2.platform /\ TimesOverlap(t1_start, t1_end, t2_start, t2_end)
        THEN << [type            |-> "Platform Conflict",
                 trains          |-> <<train1.train_id, train2.train_id>>,
                 platform        |-> train1.platform,
                 overlap_minutes |-> Min(t1_end, t2_end) - Max(t1_start, t2_start)] >>
        ELSE <<>>

RECURSIVE ConflictsFrom(_, _, _)
\* the nested loops from position (i, j) on: for i, for j in i+1..
ConflictsFrom(schedule, i, j) ==
    IF i > Len(schedule) THEN <<>>
    ELSE IF j > Len(schedule) THEN ConflictsFrom(schedule, i + 1, i + 2)
    ELSE ConflictsOfPair(schedule, i, j) \o ConflictsFrom(schedule, i, j + 1)

analyze_schedule_conflicts(schedule) == ConflictsFrom(schedule, 1, 2)

\* schedules handed to the auditor: entries on two platforms starting at these
\* minutes of the day, with these durations
AuditStarts == {630, 635, 640}

AuditDurations == {5, 8, 10}

AuditPlatforms == {1, 2}

AuditIds == <<"T001", "T002", "T003", "T004", "T005">>

\* an entry as a caller builds it: the start as an HH:MM string
AuditEntry(k, start, dur, p) ==
    [train_id        |-> AuditIds[k],
     scheduled_start |-> FormatHHMM(start),
     duration        |-> dur,
     platform        |-> p]

AuditEntrySpecs == [start : AuditStarts, duration : AuditDurations, platform : AuditPlatforms]

AuditInputs == UNION { [1..n -> AuditEntrySpecs] : n \in 0..MaxAuditLen }

-----------------------------------------------------------------------------
(* State machine *)

\* mock_schedule_entries of routes/schedule.py (train_id, platform, estimated_delay;
\* the times and the route are never read by apply_scenario); a train id is the
\* sequence of its characters
InitScheduleEntries ==
    << [train_id |-> <<"T", "0", "0", "1">>, platform |-> 1, estimated_delay |-> 0],
       [train_id |-> <<"T", "0", "0", "2">>, platform |-> 2, estimated_delay |-> 10],
       [train_id |-> <<"T", "0", "0", "3">>, platform |-> 4, estimated_delay |-> 0],
       [train_id |-> <<"T", "0", "0", "4">>, platform |-> 3, estimated_delay |-> 0] >>

NoResponse == [scenario_type |-> "none", affected_trains |-> <<>>]

RouteInit ==
    /\ mock_schedule_entries = InitScheduleEntries
    /\ route_response = NoResponse

Init ==
    /\ optimizer \in {"TrainOptimizer", "SimpleTrainOptimizer"}
    /\ trains = InitTrains
    /\ platforms = InitPlatforms
    /\ solver_status = "NONE"
    /\ result = NoResult
    /\ audit = NoAudit
    /\ scenario = NoScenario
    /\ RouteInit

\* a variable of the model has an empty domain: NewIntVar(0, ub) with ub < 0, or no
\* platform
EmptyDomain(ts, pls) ==
    \/ PlatformDomain(pls) = {}
    \/ \E i \in Indices(ts) : StartDomain(ts[i]) = {}

\* TrainOptimizer.optimize_train_schedule on trains ts and platforms pls, as the set
\* of its possible outcomes.  solver.Solve returns OPTIMAL or FEASIBLE with a
\* solution (extract_solution), or UNKNOWN (the time limit ended the search), or,
\* when a domain is empty, INFEASIBLE or MODEL_INVALID, and then the fallback is
\* returned; a library call that raises on an empty domain reaches the except clause
ExactOutcomes(ts, pls) ==
    LET feasible == FeasibleSolutions(ts, pls)
        best     == MinObjective(ts, feasible)
    IN  { [solver_status |-> "FEASIBLE", result |-> extract_solution(ts, sol)] : sol \in feasible }
          \cup
        { [solver_status |-> "OPTIMAL", result |-> extract_solution(ts, sol)] :
              sol \in {x \in feasible : ObjectiveValue(ts, x) = best} }
          \cup
        { [solver_status |-> st,
           result |-> get_fallback_solution(ts, pls, "No optimal solution found")] :
              st \in IF EmptyDomain(ts, pls)
                     THEN {"INFEASIBLE", "MODEL_INVALID", "UNKNOWN"}
                     ELSE {"UNKNOWN"} }
          \cup
        { [solver_status |-> "NONE",
           result |-> get_fallback_solution(ts, pls, "Optimization error")] :
              raised \in IF EmptyDomain(ts, pls) THEN {TRUE} ELSE {} }

\* SimpleTrainOptimizer.optimize_train_schedule: no solver is involved
SimpleOutcomes(ts, pls) ==
    { [solver_status |-> "NONE", result |-> SimpleResult(ts, pls)] }

\* self.optimize_train_schedule() of an object of class cls
Outcomes(cls, ts, pls) ==
    IF cls = "TrainOptimizer" THEN ExactOutcomes(ts, pls) ELSE SimpleOutcomes(ts, pls)

\* mutant: self.trains.sort(...) in place of sorted(self.trains, ...)
OptimizeTrainSchedule_SortsInPlace ==
    /\ result = NoResult
    /\ audit = NoAudit
    /\ \E o \in Outcomes(optimizer, trains, platforms) :
          /\ solver_status' = o.solver_status
          /\ result' = o.result
    /\ scenario' = NoScenario
    /\ trains' = SortedByPriority(trains)
    /\ UNCHANGED <<mock_schedule_entries, route_response, optimizer, platforms, audit>>

\* optimize_train_schedule(): solve the object's trains and platforms as they are
OptimizeTrainSchedule ==
    /\ result = NoResult
    /\ audit = NoAudit
    /\ \E o \in Outcomes(optimizer, trains, platforms) :
          /\ solver_status' = o.solver_status
          /\ result' = o.result
    /\ scenario' = NoScenario
    /\ UNCHANGED <<mock_schedule_entries, route_response, optimizer, trains, platforms, audit>>

\* optimize_for_scenario("weather")
ScenarioWeather ==
    \E draw \in WeatherDraws(trains) :
        /\ result = NoResult
        /\ audit = NoAudit
        /\ WeatherAllowed(trains, draw)
        /\ trains' = ApplyWeather(trains, draw)
        /\ \E o \in Outcomes(optimizer, ApplyWeather(trains, draw), platforms) :
              /\ solver_status' = o.solver_status
              /\ result' = o.result
        /\ scenario' = "weather"
        /\ UNCHANGED <<mock_schedule_entries, route_response, optimizer, platforms, audit>>

\* optimize_for_scenario("maintenance")
ScenarioMaintenance ==
    /\ result = NoResult
    /\ audit = NoAudit
    /\ platforms' = ApplyMaintenance(platforms)
    /\ \E o \in Outcomes(optimizer, trains, ApplyMaintenance(platforms)) :
          /\ solver_status' = o.solver_status
          /\ result' = o.result
    /\ scenario' = "maintenance"
    /\ UNCHANGED <<mock_schedule_entries, route_response, optimizer, trains, audit>>

\* optimize_for_scenario("peak_hours")
ScenarioPeakHours ==
    /\ result = NoResult
    /\ audit = NoAudit
    /\ trains' = ApplyPeakHours(trains)
    /\ \E o \in Outcomes(optimizer, ApplyPeakHours(trains), platforms) :
          /\ solver_status' = o.solver_status
          /\ result' = o.result
    /\ scenario' = "peak_hours"
    /\ UNCHANGED <<mock_schedule_entries, route_response, optimizer, platforms, audit>>

\* optimize_for_scenario(name) with an unrecognized name
ScenarioOther ==
    \E name \in UnrecognizedScenarios :
        /\ result = NoResult
        /\ audit = NoAudit
        /\ trains' = ScenarioInputs(name, trains, platforms, <<>>).trains
        /\ platforms' = ScenarioInputs(name, trains, platforms, <<>>).platforms
        /\ \E o \in Outcomes(optimizer, ScenarioInputs(name, trains, platforms, <<>>).trains,
                              ScenarioInputs(name, trains, platforms, <<>>).platforms) :
              /\ solver_status' = o.solver_status
              /\ result' = o.result
        /\ scenario' = name
        /\ UNCHANGED <<mock_schedule_entries, route_response, optimizer, audit>>

\* the caller takes the returned value (main.py returns it in the HTTP response);
\* the object keeps only its trains and platforms between calls
Respond ==
    /\ result # NoResult
    /\ result' = NoResult
    /\ solver_status' = "NONE"
    /\ scenario' = NoScenario
    /\ UNCHANGED <<mock_schedule_entries, route_response, optimizer, trains, platforms, audit>>

\* analyze_schedule_conflicts(schedule) on a caller-built schedule; the record keeps
\* the minutes the caller formatted into the entries next to what was returned
AnalyzeScheduleConflicts ==
    /\ optimizer = "TrainOptimizer"
    /\ result = NoResult
    /\ audit = NoAudit
    /\ \E input \in AuditInputs :
          LET schedule == [k \in 1..Len(input) |->
                              AuditEntry(k, input[k].start, input[k].duration, input[k].platform)]
          IN  audit' = [called    |-> TRUE,
                        input     |-> input,
                        schedule  |-> schedule,
                        conflicts |-> analyze_schedule_conflicts(schedule)]
    /\ UNCHANGED <<mock_schedule_entries, route_response, optimizer, trains, platforms, solver_status, result, scenario>>

\* the caller takes the returned value and hands its train_schedule to
\* analyze_schedule_conflicts, which reads no field of the object it is called on;
\* the record keeps the status of the audited result next to what was returned
AuditReturned ==
    /\ result # NoResult
    /\ audit = NoAudit
    /\ audit' = [called    |-> TRUE,
                 status    |-> result.status,
                 schedule  |-> result.train_schedule,
                 conflicts |-> analyze_schedule_conflicts(result.train_schedule)]
    /\ result' = NoResult
    /\ solver_status' = "NONE"
    /\ scenario' = NoScenario
    /\ UNCHANGED <<mock_schedule_entries, route_response, optimizer, trains, platforms>>

\* the caller takes the conflict list
RespondAudit ==
    /\ audit # NoAudit
    /\ audit' = NoAudit
    /\ UNCHANGED <<mock_schedule_entries, route_response, optimizer, trains, platforms, solver_status, result, scenario>>

Next ==
    \/ OptimizeTrainSchedule
    \/ ScenarioWeather
    \/ ScenarioMaintenance
    \/ ScenarioPeakHours
    \/ ScenarioOther
    \/ Respond
    \/ AuditReturned
    \/ RespondAudit

Spec == Init /\ [][Next]_vars

\* an object whose trains and platforms are one of InputConfigs
InitInput ==
    /\ optimizer \in {"TrainOptimizer", "SimpleTrainOptimizer"}
    /\ \E c \in InputConfigs : trains = c.trains /\ platforms = c.platforms
    /\ solver_status = "NONE"
    /\ result = NoResult
    /\ audit = NoAudit
    /\ scenario = NoScenario
    /\ RouteInit

SpecInput == InitInput /\ [][Next]_vars

\* the conflict auditor alone, on caller-built schedules
NextAudit ==
    \/ AnalyzeScheduleConflicts
    \/ RespondAudit

SpecAudit == Init /\ [][NextAudit]_vars

-----------------------------------------------------------------------------
(* routes/schedule.py: apply_scenario on the module-level mock_schedule_entries *)

\* needle in hay, for strings as sequences of characters
Contains(needle, hay) ==
    \E k \in 0..(Len(hay) - Len(needle)) : SubSeq(hay, k + 1, k + Len(needle)) = needle

\* "Express" in entry["train_id"] or "Passenger" in entry["train_id"]
IsExpressOrPassengerId(train_id) ==
    \/ Contains(<<"E", "x", "p", "r", "e", "s", "s">>, train_id)
    \/ Contains(<<"P", "a", "s", "s", "e", "n", "g", "e", "r">>, train_id)

\* random.randint(lo, hi) once per entry, sampled at the two ends: all entries
\* alike, or alternating
RouteDraws(entries, lo, hi) ==
    { [i \in Indices(entries) |-> lo],
      [i \in Indices(entries) |-> hi],
      [i \in Indices(entries) |-> IF i % 2 = 1 THEN lo ELSE hi] }

\* the entries at the positions hits get their draw added to estimated_delay
AddDelays(entries, hits, draw) ==
    [i \in Indices(entries) |->
        IF i \in hits
        THEN [entries[i] EXCEPT !.estimated_delay = @ + draw[i]]
        ELSE entries[i]]

\* affected_trains: the ids of the entries at the positions hits, in list order
AffectedTrains(entries, hits) ==
    LET upto[i \in 0..Len(entries)] ==
            IF i = 0 THEN <<>>
            ELSE IF i \in hits THEN Append(upto[i - 1], entries[i].train_id)
            ELSE upto[i - 1]
    IN  upto[Len(entries)]

\* the positions of the entries whose train id names an Express or Passenger train
ExpressOrPassengerEntries(entries) ==
    {i \in Indices(entries) : IsExpressOrPassengerId(entries[i].train_id)}

WithinRouteBound(entries) ==
    \A i \in Indices(entries) : entries[i].estimated_delay <= MaxRouteDelay

\* apply_scenario(ScenarioType.WEATHER)
RouteWeather ==
    LET hit == ExpressOrPassengerEntries(mock_schedule_entries)
    IN  \E draw \in RouteDraws(mock_schedule_entries, route_weather_min, route_weather_max) :
            /\ WithinRouteBound(AddDelays(mock_schedule_entries, hit, draw))
            /\ mock_schedule_entries' = AddDelays(mock_schedule_entries, hit, draw)
            /\ route_response' = [scenario_type   |-> "weather",
                                  affected_trains |-> AffectedTrains(mock_schedule_entries, hit)]
            /\ UNCHANGED optimizer_vars

\* apply_scenario(ScenarioType.ACCIDENT)
RouteAccident ==
    LET hit == Indices(mock_schedule_entries)
    IN  \E draw \in RouteDraws(mock_schedule_entries, route_accident_min, route_accident_max) :
            /\ WithinRouteBound(AddDelays(mock_schedule_entries, hit, draw))
            /\ mock_schedule_entries' = AddDelays(mock_schedule_entries, hit, draw)
            /\ route_response' = [scenario_type   |-> "accident",
                                  affected_trains |-> AffectedTrains(mock_schedule_entries, hit)]
            /\ UNCHANGED optimizer_vars

\* apply_scenario(ScenarioType.PEAK_HOURS)
RoutePeakHours ==
    LET hit == ExpressOrPassengerEntries(mock_schedule_entries)
    IN  \E draw \in RouteDraws(mock_schedule_entries, route_peak_min, route_peak_max) :
            /\ WithinRouteBound(AddDelays(mock_schedule_entries, hit, draw))
            /\ mock_schedule_entries' = AddDelays(mock_schedule_entries, hit, draw)
            /\ route_response' = [scenario_type   |-> "peak_hours",
                                  affected_trains |-> AffectedTrains(mock_schedule_entries, hit)]
            /\ UNCHANGED optimizer_vars

\* the entries on the maintenance platform move to (maintenance_platform % 4) + 1
MovePlatform(entries, maintenance_platform) ==
    [i \in Indices(entries) |->
        IF entries[i].platform = maintenance_platform
        THEN [entries[i] EXCEPT !.platform = (maintenance_platform % route_platforms) + 1]
        ELSE entries[i]]

\* apply_scenario(ScenarioType.MAINTENANCE)
RouteMaintenance ==
    \E maintenance_platform \in 1..route_platforms :
        LET hit == {i \in Indices(mock_schedule_entries) :
                       mock_schedule_entries[i].platform = maintenance_platform}
        IN  \E draw \in RouteDraws(mock_schedule_entries,
                                   route_maintenance_min, route_maintenance_max) :
                LET after == MovePlatform(AddDelays(mock_schedule_entries, hit, draw),
                                          maintenance_platform)
                IN  /\ WithinRouteBound(after)
                    /\ mock_schedule_entries' = after
                    /\ route_response' =
                          [scenario_type   |-> "maintenance",
                           affected_trains |-> AffectedTrains(mock_schedule_entries, hit)]
                    /\ UNCHANGED optimizer_vars

\* the members of ScenarioType that reach the else branch
NormalScenarioTypes == {"normal", "signal_failure"}

\* apply_scenario of any other ScenarioType: the delays are reset
RouteNormal ==
    \E scenario_type \in NormalScenarioTypes :
        /\ mock_schedule_entries' =
              [i \in Indices(mock_schedule_entries) |->
                  [mock_schedule_entries[i] EXCEPT !.estimated_delay = 0]]
        /\ route_response' = [scenario_type |-> scenario_type, affected_trains |-> <<>>]
        /\ UNCHANGED optimizer_vars

NextRoute ==
    \/ RouteWeather
    \/ RouteAccident
    \/ RoutePeakHours
    \/ RouteMaintenance
    \/ RouteNormal

\* the application of src/main.py: one TrainOptimizer object and the routes
InitRoute == Init /\ optimizer = "TrainOptimizer"

SpecRoute == InitRoute /\ [][NextRoute]_vars

-----------------------------------------------------------------------------
(* Properties *)

Schedule == result.train_schedule

Returned == result # NoResult

\* absolute start minute of a schedule entry, read back from its HH:MM string
StartOf(e) == time_to_minutes(e.scheduled_start)

\* the train an entry is for
TrainOf(e) == trains[CHOOSE i \in Indices(trains) : trains[i].id = e.train_id]

Scenarioed == trains # InitTrains \/ platforms # InitPlatforms

FromExact == optimizer = "TrainOptimizer" /\ Returned /\ result.status = "optimal"

FromFallback == optimizer = "TrainOptimizer" /\ Returned /\ result.status = "fallback"

FromSimple == optimizer = "SimpleTrainOptimizer" /\ Returned

\* two entries' intervals, each extended by buffer minutes after its end, are disjoint
BufferedDisjoint(e1, e2, buffer) ==
    \/ StartOf(e1) + e1.duration + buffer <= StartOf(e2)
    \/ StartOf(e2) + e2.duration + buffer <= StartOf(e1)

\* C1: in every returned schedule (exact, fallback, heuristic), in every reachable
\* configuration, two distinct assignments on one platform have disjoint intervals
\* [start, start + duration + 5)
C1_NoOverlap ==
    Returned =>
        \A i, j \in Indices(Schedule) :
            (i # j /\ Schedule[i].platform = Schedule[j].platform)
                => BufferedDisjoint(Schedule[i], Schedule[j], 5)

\* C1 witness: after a scenario the exact engine returns a schedule in which two
\* trains share a platform, the second starting exactly when the first one's
\* buffered interval ends
C1_Witness ==
    /\ FromExact
    /\ Scenarioed
    /\ \E i, j \in Indices(Schedule) :
          /\ i # j
          /\ Schedule[i].platform = Schedule[j].platform
          /\ StartOf(Schedule[i]) + Schedule[i].duration + 5 = StartOf(Schedule[j])

\* C2: every returned schedule has as many assignments as there are trains, and
\* every train id appears in exactly one assignment
C2_Completeness ==
    Returned =>
        /\ Len(Schedule) = Len(trains)
        /\ \A t \in Indices(trains) :
              Cardinality({i \in Indices(Schedule) : Schedule[i].train_id = trains[t].id}) = 1

\* C2 witness: a fallback schedule of four assignments over trains two of which
\* have equal priority
C2_Witness ==
    /\ FromFallback
    /\ Len(Schedule) = 4
    /\ \E a, b \in Indices(trains) : a # b /\ trains[a].priority = trains[b].priority

\* C3 (as claimed): in every returned schedule each assignment's delay is at least
\* the absolute deviation of its start from the train's preferred time
C3_DelayBound ==
    Returned =>
        \A i \in Indices(Schedule) :
            Schedule[i].delay_minutes
                >= Abs((StartOf(Schedule[i]) - time_start)
                         - (TrainOf(Schedule[i]).preferred_time - time_start))

C5_FallbackIsHeuristic ==
    FromFallback =>
        \A i \in Indices(Schedule) :
            \E k \in Indices(SimpleSchedule(trains, platforms)) :
                LET h == SimpleSchedule(trains, platforms)[k]
                IN  /\ h.train_id = Schedule[i].train_id
                    /\ h.platform = Schedule[i].platform
                    /\ h.scheduled_start = Schedule[i].scheduled_start
                    /\ h.delay_minutes = Schedule[i].delay_minutes

\* C6: in every schedule the exact engine returns with status optimal, a train A of
\* strictly higher priority than B has delay(A) <= delay(B) + 10 * (priority gap)
C6_PriorityOrdering ==
    FromExact =>
        \A a, b \in Indices(Schedule) :
            Schedule[a].priority < Schedule[b].priority =>
                Schedule[a].delay_minutes
                    <= Schedule[b].delay_minutes
                         + (Schedule[b].priority - Schedule[a].priority) * 10

\* C6 witness: an exact schedule in which a higher-priority train is delayed by the
\* whole slack more than a lower-priority one
C6_Witness ==
    /\ FromExact
    /\ \E a, b \in Indices(Schedule) :
          /\ Schedule[a].priority < Schedule[b].priority
          /\ Schedule[a].delay_minutes
               = Schedule[b].delay_minutes + (Schedule[b].priority - Schedule[a].priority) * 10

\* C7: the heuristic always returns status optimal with an assignment for every train
C7_HeuristicNoFailure ==
    FromSimple =>
        /\ result.status = "optimal"
        /\ Len(Schedule) = Len(trains)
        /\ \A t \in Indices(trains) :
              \E i \in Indices(Schedule) : Schedule[i].train_id = trains[t].id

\* C7 witness: the heuristic has run after weather lengthened the trains, peak hours
\* raised a priority and maintenance closed platforms
C7_Witness ==
    /\ FromSimple
    /\ result.status = "optimal"
    /\ Len(platforms) = maintenance_platforms
    /\ \A t \in Indices(trains) : trains[t].duration > InitTrains[t].duration
    /\ \E t \in Indices(trains) : trains[t].priority < InitTrains[t].priority

\* C9: every assignment of every returned schedule has delay >= 0
C9_DelayNonNegative ==
    Returned => \A i \in Indices(Schedule) : Schedule[i].delay_minutes >= 0

\* C9 witness: after a scenario, an exact schedule with a delayed and an undelayed train
C9_Witness ==
    /\ FromExact
    /\ Scenarioed
    /\ \E i, j \in Indices(Schedule) :
          Schedule[i].delay_minutes > 0 /\ Schedule[j].delay_minutes = 0

-----------------------------------------------------------------------------
(* Properties of the conflict auditor, under SpecAudit *)

\* the minutes entry k of the audited input occupies: [start, start + duration)
MinutesOf(k) == audit.input[k].start .. (audit.input[k].start + audit.input[k].duration - 1)

\* entries i and j share a platform and a minute
InputsConflict(i, j) ==
    /\ audit.input[i].platform = audit.input[j].platform
    /\ MinutesOf(i) \cap MinutesOf(j) # {}

\* the reported conflicts that name entries i and j
ReportsOf(i, j) ==
    { c \in Indices(audit.conflicts) :
        audit.conflicts[c].trains \in {<<AuditIds[i], AuditIds[j]>>, <<AuditIds[j], AuditIds[i]>>} }

\* C10: the auditor reports a pair of entries exactly once if they share a platform
\* and their intervals [start, start + duration) intersect, and not at all otherwise;
\* every reported conflict is one of these pairs
C10_AuditIff ==
    audit.called =>
        /\ \A i, j \in Indices(audit.input) :
              i < j => Cardinality(ReportsOf(i, j)) = IF InputsConflict(i, j) THEN 1 ELSE 0
        /\ \A c \in Indices(audit.conflicts) :
              \E i, j \in Indices(audit.input) : i < j /\ c \in ReportsOf(i, j)

\* C10 witness: three entries on one platform, of which two only touch and two
\* overlap; exactly one conflict is reported
C10_Witness ==
    /\ audit.called
    /\ Len(audit.input) = 3
    /\ Len(audit.conflicts) = 1
    /\ \E i, j, k \in Indices(audit.input) :
          /\ audit.input[i].platform = audit.input[j].platform
          /\ audit.input[i].start + audit.input[i].duration = audit.input[j].start
          /\ j # k /\ InputsConflict(j, k)

\* the two entries on platform 2 occupying [10:30, 10:40) and [10:35, 10:43)
ExampleInput ==
    << [start |-> 630, duration |-> 10, platform |-> 2],
       [start |-> 635, duration |-> 8,  platform |-> 2] >>

\* end minute of entry k of the audited input
InputEnd(k) == audit.input[k].start + audit.input[k].duration

\* C11: every reported conflict carries overlap_minutes = min(end1, end2) -
\* max(start1, start2) of the two entries it names, which is strictly positive; on
\* the two entries of ExampleInput exactly one conflict, of 5 minutes, is reported
C11_OverlapAmount ==
    audit.called =>
        /\ \A c \in Indices(audit.conflicts) :
              \E i, j \in Indices(audit.input) :
                  /\ i < j
                  /\ audit.conflicts[c].trains = <<AuditIds[i], AuditIds[j]>>
                  /\ audit.conflicts[c].overlap_minutes
                       = Min(InputEnd(i), InputEnd(j))
                           - Max(audit.input[i].start, audit.input[j].start)
                  /\ audit.conflicts[c].overlap_minutes > 0
        /\ audit.input = ExampleInput =>
              /\ Len(audit.conflicts) = 1
              /\ audit.conflicts[1].overlap_minutes = 5

\* C11 witness: the auditor has run on the two entries of ExampleInput and reported
\* one conflict between T001 and T002 on platform 2
C11_Witness ==
    /\ audit.called
    /\ audit.input = ExampleInput
    /\ Len(audit.conflicts) = 1
    /\ audit.conflicts[1].trains = <<"T001", "T002">>
    /\ audit.conflicts[1].platform = 2

-----------------------------------------------------------------------------
(* Properties of returned schedules and of the scenario entry point *)

\* C12: the auditor, run on the train_schedule any engine returned (exact, fallback,
\* heuristic) in any reachable configuration, returns an empty conflict list
C12_ReturnedAuditClean ==
    audit.called => audit.conflicts = <<>>

\* C12 witness: after a scenario, the auditor has run on an exact schedule in which
\* two trains share a platform, and found nothing
C12_Witness ==
    /\ audit.called
    /\ optimizer = "TrainOptimizer"
    /\ audit.status = "optimal"
    /\ Scenarioed
    /\ audit.conflicts = <<>>
    /\ \E i, j \in Indices(audit.schedule) :
          i # j /\ audit.schedule[i].platform = audit.schedule[j].platform

\* the object holds the trains and platforms it was built with
InitialConfiguration == trains = InitTrains /\ platforms = InitPlatforms

\* the entry of the returned schedule for a train id
EntryOf(id) == Schedule[CHOOSE i \in Indices(Schedule) : Schedule[i].train_id = id]

C14_ExactDomains ==
    FromExact =>
        \A i \in Indices(Schedule) :
            /\ StartOf(Schedule[i]) - time_start
                 \in 0..(time_horizon - TrainOf(Schedule[i]).duration)
            /\ \E k \in Indices(platforms) : platforms[k] = Schedule[i].platform

\* C14 witness: the exact schedule returned by the maintenance scenario, with a train
\* on the last platform left and trains lengthened by weather
C14_Witness ==
    /\ FromExact
    /\ scenario = "maintenance"
    /\ platforms = <<1, 2, 3, 4>>
    /\ \E i \in Indices(Schedule) : Schedule[i].platform = 4
    /\ \E t \in Indices(trains) : trains[t].duration > InitTrains[t].duration

\* a step is the return of optimize_for_scenario(name)
ScenarioStep(name) == result = NoResult /\ result' # NoResult /\ scenario' = name

\* a step is the return of optimize_train_schedule() called directly
SolveStep == result = NoResult /\ result' # NoResult /\ scenario' = NoScenario

\* train i keeps every field but the named one
SameBut(field, before, after) ==
    \A f \in DOMAIN before : f # field => after[f] = before[f]

\* C15: the maintenance scenario turns the six initial platforms into exactly
\* <<1, 2, 3, 4>>, leaves the platforms at <<1, 2, 3, 4>> when applied again, and
\* never changes a train
C15_MaintenancePrefix ==
    [][ScenarioStep("maintenance") =>
          /\ platforms \in {InitPlatforms, <<1, 2, 3, 4>>}
          /\ platforms' = <<1, 2, 3, 4>>
          /\ trains' = trains]_vars

\* C15 witness: the maintenance scenario has returned, with four platforms left and
\* the trains as a weather scenario before it left them
C15_Witness ==
    /\ scenario = "maintenance"
    /\ Returned
    /\ platforms = <<1, 2, 3, 4>>
    /\ \A t \in Indices(trains) : trains[t].duration > InitTrains[t].duration

\* C16: every priority stays within 1..5, and a peak_hours scenario lowers the
\* priority of each Passenger train by 1, or keeps it at 1, and changes no priority
\* of another train, no duration, no other field and no platform
C16_PeakHours ==
    /\ [](\A i \in Indices(trains) : trains[i].priority \in 1..5)
    /\ [][ScenarioStep("peak_hours") =>
            /\ Len(trains') = Len(trains)
            /\ \A i \in Indices(trains) :
                  /\ SameBut("priority", trains[i], trains'[i])
                  /\ trains'[i].priority =
                       IF trains[i].type = "Passenger"
                       THEN (IF trains[i].priority = 1 THEN 1 ELSE trains[i].priority - 1)
                       ELSE trains[i].priority
            /\ platforms' = platforms]_vars

\* C16 witness: peak_hours has returned with a Passenger train at priority 1 that
\* was built with a lower priority
C16_Witness ==
    /\ scenario = "peak_hours"
    /\ Returned
    /\ \E i \in Indices(trains) :
          /\ trains[i].type = "Passenger"
          /\ trains[i].priority = 1
          /\ InitTrains[i].priority > 1

\* C17: a weather scenario lengthens every train by an amount within 5..15 and
\* changes no other field of a train and no platform
C17_Weather ==
    [][ScenarioStep("weather") =>
          /\ Len(trains') = Len(trains)
          /\ \A i \in Indices(trains) :
                /\ SameBut("duration", trains[i], trains'[i])
                /\ trains'[i].duration - trains[i].duration \in 5..15
          /\ platforms' = platforms]_vars

\* C17 witness: weather has returned having lengthened one train by 5 and another
\* by 15 minutes
C17_Witness ==
    /\ scenario = "weather"
    /\ Returned
    /\ \E i, j \in Indices(trains) :
          /\ trains[i].duration = InitTrains[i].duration + 5
          /\ trains[j].duration = InitTrains[j].duration + 15

\* the solver assignment an exact schedule was extracted from, by position in ts
AssignmentOf(ts, schedule) ==
    [i \in Indices(ts) |->
        LET e == schedule[CHOOSE k \in Indices(schedule) : schedule[k].train_id = ts[i].id]
        IN  [start    |-> StartOf(e) - time_start,
             platform |-> e.platform,
             delay    |-> e.delay_minutes]]

\* sol is within the variable domains and satisfies every constraint of the CP-SAT
\* model built for ts and pls
SatisfiesModel(ts, pls, sol) ==
    /\ \A i \in Indices(ts) :
          /\ sol[i].start \in StartDomain(ts[i])
          /\ sol[i].platform \in PlatformDomain(pls)
          /\ sol[i].delay \in DelayDomain
          /\ DelayConstraint(ts[i], sol[i])
    /\ \A i, j \in Indices(ts) :
          /\ i < j => PlatformConflictConstraint(ts[i], sol[i], ts[j], sol[j])
          /\ PriorityConstraint(ts[i], sol[i], ts[j], sol[j])

\* r is a value optimize_train_schedule() of class cls can return on ts and pls
IsSolveReturn(r, cls, ts, pls) ==
    IF cls = "SimpleTrainOptimizer" THEN r = SimpleResult(ts, pls)
    ELSE IF r.status = "fallback"
         THEN r = get_fallback_solution(ts, pls, "No optimal solution found")
         ELSE /\ r.status = "optimal"
              /\ Len(r.train_schedule) = Len(ts)
              /\ SatisfiesModel(ts, pls, AssignmentOf(ts, r.train_schedule))
              /\ r = extract_solution(ts, AssignmentOf(ts, r.train_schedule))

\* C18: optimize_for_scenario with a name other than weather, maintenance and
\* peak_hours changes neither the trains nor the platforms and returns a value that
\* optimize_train_schedule returns on them
C18_UnrecognizedScenario ==
    [][(\E name \in UnrecognizedScenarios : ScenarioStep(name)) =>
          /\ trains' = trains
          /\ platforms' = platforms
          /\ IsSolveReturn(result', optimizer, trains, platforms)]_vars

\* C18 witness: the accident scenario has returned an exact schedule on an object
\* whose trains and platforms earlier scenarios had changed
C18_Witness ==
    /\ scenario \in UnrecognizedScenarios
    /\ FromExact
    /\ platforms = <<1, 2, 3, 4>>
    /\ \E t \in Indices(trains) : trains[t].priority < InitTrains[t].priority

\* C19 (as claimed): a scenario run leaves the object's trains and platforms as they
\* were, so that a schedule returned by a later direct solve is for the trains and
\* platforms the object was built with
C19_ScenarioIsPure ==
    (Returned /\ scenario = NoScenario) => InitialConfiguration

\* C20: optimize_train_schedule() called directly, the fallback path included, leaves
\* the train list and the platform list as they were
C20_SolveLeavesInputs ==
    [][SolveStep => (trains' = trains /\ platforms' = platforms)]_vars

\* C20 witness: a direct solve has returned the fallback on an object whose train
\* order differs from priority order
C20_Witness ==
    /\ scenario = NoScenario
    /\ FromFallback
    /\ \E i, j \in Indices(trains) : i < j /\ trains[i].priority > trains[j].priority


-----------------------------------------------------------------------------
(* Results, metrics and utilization *)

Metrics == result.performance_metrics

\* the object is idle: a call can be made
Idle == result = NoResult /\ audit = NoAudit

\* C22: every call of TrainOptimizer.optimize_train_schedule returns (some outcome
\* exists in every configuration in which a call can be made), and the result it
\* returns has status "optimal" or "fallback", also when the solver finds the model
\* invalid or a library call raises
C22_SolveReturns ==
    /\ (optimizer = "TrainOptimizer" /\ Idle) => ExactOutcomes(trains, platforms) # {}
    /\ (optimizer = "TrainOptimizer" /\ Returned) => result.status \in {"optimal", "fallback"}

\* a failure of the exact engine (the except clause) was recovered by the fallback
C22_Witness ==
    /\ FromFallback
    /\ result.error_message = "Optimization error"
    /\ \E i \in Indices(trains) : trains[i].duration > time_horizon

\* C23: in the metrics of every result with a schedule, total_delay_minutes is the
\* sum of the entries' delays, on_time_trains the number of entries of delay 0,
\* delayed_trains the number of delay above 0, and the two counts add up to the
\* number of trains
C23_MetricsConsistent ==
    (Returned /\ result.status # "error") =>
        /\ Metrics.total_delay_minutes =
              SumSeq([i \in Indices(Schedule) |-> Schedule[i].delay_minutes])
        /\ Metrics.on_time_trains =
              Cardinality({i \in Indices(Schedule) : Schedule[i].delay_minutes = 0})
        /\ Metrics.delayed_trains =
              Cardinality({i \in Indices(Schedule) : Schedule[i].delay_minutes > 0})
        /\ Metrics.on_time_trains + Metrics.delayed_trains = Len(trains)

\* a result with on-time and with delayed trains
C23_Witness ==
    /\ Returned
    /\ result.status # "error"
    /\ Metrics.on_time_trains > 0
    /\ Metrics.delayed_trains > 0
    /\ Metrics.total_delay_minutes > 0

\* minutes of the durations of the entries on platform p
UsedTime(p) ==
    SumSeq([i \in Indices(Schedule) |->
               IF Schedule[i].platform = p THEN Schedule[i].duration ELSE 0])

\* C24: the utilization a result reports has an entry for every platform of the
\* current platforms: used time / time_horizon * 100 (to one decimal) for a
\* platform with trains, 0 for a platform without
C24_UtilizationComplete ==
    (Returned /\ result.status = "optimal") =>
        \A i \in Indices(platforms) :
            /\ PlatformKey(platforms[i]) \in DOMAIN Metrics.platform_utilization
            /\ Metrics.platform_utilization[PlatformKey(platforms[i])] =
                  RoundTenths(UsedTime(platforms[i]), time_horizon)


\* a train list the specification calls malformed
Malformed(ts) ==
    \E i \in Indices(ts) :
        \/ ts[i].duration <= 0
        \/ ts[i].priority \notin 1..5
        \/ \E j \in Indices(ts) : j # i /\ ts[j].id = ts[i].id

\* C21: a call on malformed trains returns an InvalidInput error: the solver is not
\* run and no schedule, not even a partial one, is returned
C21_MalformedRejected ==
    (Returned /\ Malformed(trains)) =>
        /\ result.status = "error"
        /\ result.error_message = "InvalidInput"
        /\ result.train_schedule = <<>>
        /\ solver_status = "NONE"


-----------------------------------------------------------------------------
(* Objective *)

\* the weight table of the specification
WeightTable == (1 :> 10) @@ (2 :> 7) @@ (3 :> 4) @@ (4 :> 2) @@ (5 :> 1)

WeightOf(priority) == IF priority \in DOMAIN WeightTable THEN WeightTable[priority] ELSE 1

\* weighted sum of the delays of a solver assignment of the current trains
WeightedDelay(sol) ==
    SumSeq([i \in Indices(trains) |-> sol[i].delay * WeightOf(trains[i].priority)])

-----------------------------------------------------------------------------
(* The heuristic, read back from the schedule it returns *)

FromHeuristic == FromSimple /\ result.status = "optimal"

\* position of a train id in self.trains
PosOf(train_id) == CHOOSE i \in Indices(trains) : trains[i].id = train_id

\* the time platform p is free when entry k is placed: the start, duration and
\* 5-minute buffer of the latest earlier entry on p, time_start when there is none
NextFree(k, p) ==
    LET earlier == {j \in 1..(k - 1) : Schedule[j].platform = p}
    IN  IF earlier = {} THEN time_start
        ELSE LET last == CHOOSE j \in earlier : \A l \in earlier : l <= j
             IN  StartOf(Schedule[last]) + Schedule[last].duration + 5

\* the preferred time as the heuristic uses it for the start
PreferredAbsolute(train) == Max(time_start, train.preferred_time)

\* C26: the heuristic's entries are in ascending priority, ties in input order; each
\* entry is on the platform of least next-free time (ties to the lowest id) and
\* starts at max(preferred absolute time, that next-free time), the next-free time
\* of a platform being start + duration + 5 of its latest entry; so no train starts
\* before its preferred time or time_start, and each starts as early as any
\* platform allows
C26_HeuristicSteps ==
    FromHeuristic =>
        /\ \A i, j \in Indices(Schedule) :
              i < j => \/ Schedule[i].priority < Schedule[j].priority
                       \/ /\ Schedule[i].priority = Schedule[j].priority
                          /\ PosOf(Schedule[i].train_id) < PosOf(Schedule[j].train_id)
        /\ \A k \in Indices(Schedule) :
              LET e    == Schedule[k]
                  free == NextFree(k, e.platform)
              IN  /\ \E i \in Indices(platforms) : platforms[i] = e.platform
                  /\ \A i \in Indices(platforms) :
                        \/ NextFree(k, platforms[i]) > free
                        \/ NextFree(k, platforms[i]) = free /\ platforms[i] >= e.platform
                  /\ StartOf(e) = Max(PreferredAbsolute(TrainOf(e)), free)
                  /\ StartOf(e) >= TrainOf(e).preferred_time
                  /\ StartOf(e) >= time_start
                  /\ \A i \in Indices(platforms) :
                        StartOf(e) <= Max(PreferredAbsolute(TrainOf(e)), NextFree(k, platforms[i]))

\* trains of equal priority, out of priority order in the input, one of which waits
\* for a platform
C26_Witness ==
    /\ FromHeuristic
    /\ \E i, j \in Indices(trains) : i < j /\ trains[i].priority > trains[j].priority
    /\ \E i, j \in Indices(trains) : i < j /\ trains[i].priority = trains[j].priority
    /\ \E k \in Indices(Schedule) :
          /\ NextFree(k, Schedule[k].platform) > PreferredAbsolute(TrainOf(Schedule[k]))
          /\ StartOf(Schedule[k]) = NextFree(k, Schedule[k].platform)


\* C27: each entry of the heuristic has delay max(0, start - preferred absolute
\* time), the preferred absolute time being the one the start was computed from; a
\* train whose platform is free at that time has delay 0
C27_HeuristicDelay ==
    FromHeuristic =>
        \A k \in Indices(Schedule) :
            Schedule[k].delay_minutes =
                Max(0, StartOf(Schedule[k]) - PreferredAbsolute(TrainOf(Schedule[k])))


-----------------------------------------------------------------------------
(* Durations beyond the horizon *)

SomeTrainTooLong == \E i \in Indices(trains) : trains[i].duration > time_horizon

\* C28: no step shortens a train; and while some train is longer than time_horizon
\* every result of the exact engine has status "fallback" (so has every later
\* one), and no status-optimal schedule has a start outside
\* [0, time_horizon - duration]
C28_TooLongFallsBack ==
    /\ [][/\ Len(trains') = Len(trains)
          /\ \A i \in Indices(trains) : trains'[i].duration >= trains[i].duration]_vars
    /\ []((optimizer = "TrainOptimizer" /\ Returned /\ SomeTrainTooLong)
            => result.status = "fallback")
    /\ [](FromExact =>
            \A k \in Indices(Schedule) :
                StartOf(Schedule[k]) - time_start \in 0..(time_horizon - Schedule[k].duration))

\* a weather scenario took a train beyond the horizon and the exact engine fell back
C28_Witness ==
    /\ FromFallback
    /\ scenario = "weather"
    /\ SomeTrainTooLong


-----------------------------------------------------------------------------
(* The fallback, read back from the schedule it returns *)

\* C29: the fallback schedule is in ascending priority, ties in input order; its k-th
\* entry (k from 0) is on platform (k mod number of platforms) + 1; the first entry
\* starts at time_start and each later one at the previous start + previous
\* duration + 10, whatever the preferred times; delay = max(0, start -
\* preferred_time); the starts are strictly increasing
C29_FallbackStructure ==
    FromFallback =>
        /\ Len(Schedule) = Len(trains)
        /\ \A i, j \in Indices(Schedule) :
              i < j => \/ Schedule[i].priority < Schedule[j].priority
                       \/ /\ Schedule[i].priority = Schedule[j].priority
                          /\ PosOf(Schedule[i].train_id) < PosOf(Schedule[j].train_id)
        /\ \A k \in Indices(Schedule) :
              /\ Schedule[k].platform = ((k - 1) % Len(platforms)) + 1
              /\ StartOf(Schedule[k]) =
                    IF k = 1 THEN time_start
                    ELSE StartOf(Schedule[k - 1]) + Schedule[k - 1].duration + 10
              /\ Schedule[k].delay_minutes =
                    Max(0, StartOf(Schedule[k]) - TrainOf(Schedule[k]).preferred_time)
        /\ \A i, j \in Indices(Schedule) :
              i < j => StartOf(Schedule[i]) < StartOf(Schedule[j])

\* a fallback of more trains than platforms, given out of priority order, one of
\* them placed before and one after its preferred time
C29_Witness ==
    /\ FromFallback
    /\ Len(Schedule) > Len(platforms)
    /\ \E i, j \in Indices(trains) : i < j /\ trains[i].priority > trains[j].priority
    /\ Schedule[Len(Schedule)].platform = 1
    /\ \E k \in Indices(Schedule) :
          StartOf(Schedule[k]) < TrainOf(Schedule[k]).preferred_time


-----------------------------------------------------------------------------
(* The schedule route *)

\* mock_trains of routes/trains.py: the type of each train id
MockTrainType(train_id) ==
    CASE train_id = <<"T", "0", "0", "1">> -> "Express"
      [] train_id = <<"T", "0", "0", "2">> -> "Express"
      [] train_id = <<"T", "0", "0", "3">> -> "Freight"
      [] train_id = <<"T", "0", "0", "4">> -> "Passenger"

\* a step is the return of apply_scenario(ScenarioType.WEATHER)
RouteWeatherStep == route_response'.scenario_type = "weather"

\* C30: apply_scenario(WEATHER) adds 10..30 to estimated_delay of every Express or
\* Passenger train's entry and lists the train in affected_trains; the entries of
\* Freight trains keep their estimated_delay
C30_RouteWeather ==
    [][RouteWeatherStep =>
          \A i \in Indices(mock_schedule_entries) :
              LET before == mock_schedule_entries[i]
                  after  == mock_schedule_entries'[i]
              IN  IF MockTrainType(before.train_id) \in {"Express", "Passenger"}
                  THEN /\ after.estimated_delay - before.estimated_delay
                            \in route_weather_min..route_weather_max
                       /\ \E k \in Indices(route_response'.affected_trains) :
                             route_response'.affected_trains[k] = before.train_id
                  ELSE after.estimated_delay = before.estimated_delay]_vars

=============================================================================
